---- MODULE Spec2Model ----
(***************************************************************************)
(* State-machine model of the task executive of NasaRmc2019:               *)
(*   - TeleopExecutive::processCommand (tfr_executive, teleop action       *)
(*     server): the command dispatcher;                                    *)
(*   - Localizer::localize (tfr_localization, localization action server): *)
(*     the localization coordinator.                                       *)
(* Each runs as the execute callback of an actionlib SimpleActionServer,   *)
(* on that server's single execute thread.  The environment (action        *)
(* clients, the digging task, the remote services, node shutdown) is       *)
(* nondeterministic.                                                       *)
(***************************************************************************)
EXTENDS Integers, Sequences, FiniteSets, TLC

(***************************************************************************)
(* Bounds of the model.                                                    *)
(***************************************************************************)
\* frequency.sleep() calls allowed in one processCommand invocation
MaxPolls == 2
\* failed iterations allowed in one localize invocation
MaxRetries == 2
\* largest marker count the marker detection reports
MaxMarkers == 2

(***************************************************************************)
(* Data.                                                                   *)
(***************************************************************************)
\* tfr_utilities::TeleopCode, as dispatched by the switch of processCommand
DriveCodes == {"STOP_DRIVEBASE", "FORWARD", "BACKWARD", "LEFT", "RIGHT",
               "CLOCKWISE", "COUNTERCLOCKWISE"}

BinCommandCodes == {"DUMP", "RESET_DUMPING"}

RecognizedCodes == DriveCodes \cup BinCommandCodes
                     \cup {"STOP_TURNTABLE", "DIG", "RESET_STARTING"}

\* goal->code is a uint8: any value outside the enumeration reaches default:
TeleopCodes == RecognizedCodes \cup {"UNRECOGNIZED"}

\* tfr_utilities::BinCode as answered by the bin_state service
BinCodes == {"RAISED", "LOWERED", "IN_BETWEEN"}

\* the goal states of the digging client for which getState().isDone() holds
DoneStates == {"SUCCEEDED", "ABORTED", "PREEMPTED"}

Terminal == {"succeeded", "preempted", "aborted"}

\* geometry_msgs::Twist, value-initialised: geometry_msgs::Twist move_cmd{}
ZeroTwist == [lx |-> 0, ly |-> 0, lz |-> 0, ax |-> 0, ay |-> 0, az |-> 0]

\* main(): ~linear_velocity, ~angular_velocity (in 1/100) and 1.0/rate (in ms);
\* the first profile is the parameters' defaults 0.25, 0.1 and 10 Hz
Profiles == {[linear |-> 25, angular |-> 10, period |-> 100],
             [linear |-> 40, angular |-> 15, period |-> 50]}

VARIABLES
    drive_stats,              \* TeleopExecutive::drive_stats
    frequency,                \* TeleopExecutive::frequency
    tpc,                      \* position of the teleop execute thread
    code,                     \* goal->code of the current goal
    status,                   \* state of the current goal of `server`
    preempt_request,          \* server.isPreemptRequested()
    new_goal,                 \* a goal is pending at `server`
    new_goal_preempt_request, \* cancel received for the pending goal
    ros_ok,                   \* ros::ok() in the teleop node
    dig_state,                \* digging_client.getState()
    sleeps,                   \* frequency.sleep() calls of this invocation
    trace,                    \* what this invocation did and saw, in order
    history,                  \* the configuration at the start of this
                              \* invocation, and the previous invocation
    lpc,                      \* position of the localizer execute thread
    lstatus,                  \* state of the current goal of Localizer::server
    lpreempt_request,         \* Localizer::server.isPreemptRequested()
    lnew_goal,                \* a goal is pending at Localizer::server
    lnew_goal_preempt_request,\* cancel received for the pending goal
    lros_ok,                  \* ros::ok() in the localization node
    retries,                  \* failed iterations of this invocation
    ltrace                    \* what this invocation did and saw, in order

VARIABLES
    manager,        \* NavigationGoalManager: constraints and reference_frame
    nav_pc,         \* position of the caller of initialize_goal
    nav_code,       \* the LocationCode argument of the current call
    nav_goal,       \* the caller's MoveBaseGoal, passed by reference
    nav_result      \* how the last call ended: "none", "ok" or "error"

tvars == <<drive_stats, frequency, tpc, code, status, preempt_request, new_goal,
           new_goal_preempt_request, ros_ok, dig_state, sleeps, trace, history>>

lvars == <<lpc, lstatus, lpreempt_request, lnew_goal, lnew_goal_preempt_request,
           lros_ok, retries, ltrace>>

\* the navigation goal manager and its caller's goal message
nvars == <<manager, nav_pc, nav_code, nav_goal, nav_result>>

vars == <<tvars, lvars, nvars>>

\* one entry of a trace
Ev(e, a) == [ev |-> e, arg |-> a]

\* the positions of a trace holding an event of kind e
At(tr, e) == {i \in DOMAIN tr : tr[i].ev = e}

\* the drive messages of a trace, in the order they were published
IsDrive(e) == e.ev = "drive"

DriveMsgs(tr) == SelectSeq(tr, IsDrive)

\* no previous invocation, or one that was not an immediate drive command
NoPrev == [code |-> "NONE", msgs |-> << >>, status |-> "none", start |-> << >>]

(***************************************************************************)
(* The teleop action server.                                               *)
(***************************************************************************)
\* TeleopExecutive(n, drive, f) and main(): publishers advertised, the
\* server started with no goal, nothing published yet
TeleopInit ==
    /\ \E p \in Profiles :
         /\ drive_stats = [linear |-> p.linear, angular |-> p.angular]
         /\ frequency = p.period
    /\ tpc = "idle"
    /\ code = "NONE"
    /\ status = "none"
    /\ preempt_request = FALSE
    /\ new_goal = FALSE
    /\ new_goal_preempt_request = FALSE
    /\ ros_ok = TRUE
    /\ dig_state = "LOST"
    /\ sleeps = 0
    /\ trace = << >>
    /\ history = [start |-> <<drive_stats, frequency>>, prev |-> NoPrev]

\* what the environment leaves alone
EnvKeeps ==
    /\ UNCHANGED <<drive_stats, frequency, tpc, code, status, dig_state, sleeps,
                   history>>
    /\ UNCHANGED <<lvars, nvars>>

\* SimpleActionServer::goalCallback: a client sends a goal.  It becomes the
\* pending goal (replacing an older pending one); if a goal is active it only
\* raises the preempt request.  The goal's code is read when processCommand
\* is entered with it.
GoalArrives ==
    /\ ros_ok
    /\ new_goal' = TRUE
    /\ new_goal_preempt_request' = FALSE
    /\ IF status = "active"
         THEN /\ preempt_request' = TRUE
              /\ trace' = IF preempt_request THEN trace
                          ELSE Append(trace, Ev("preempt_req", ""))
         ELSE UNCHANGED <<preempt_request, trace>>
    /\ UNCHANGED ros_ok
    /\ EnvKeeps

\* SimpleActionServer::preemptCallback: a client cancels the active goal
CancelArrives ==
    /\ ros_ok
    /\ status = "active"
    /\ ~preempt_request
    /\ preempt_request' = TRUE
    /\ trace' = Append(trace, Ev("preempt_req", ""))
    /\ UNCHANGED <<new_goal, new_goal_preempt_request, ros_ok>>
    /\ EnvKeeps

\* SimpleActionServer::preemptCallback: a client cancels the pending goal
CancelPending ==
    /\ ros_ok
    /\ new_goal
    /\ ~new_goal_preempt_request
    /\ new_goal_preempt_request' = TRUE
    /\ UNCHANGED <<preempt_request, new_goal, ros_ok, trace>>
    /\ EnvKeeps

\* the node is shut down: ros::ok() turns false and stays false
Shutdown ==
    /\ ros_ok
    /\ ros_ok' = FALSE
    /\ UNCHANGED <<preempt_request, new_goal, new_goal_preempt_request, trace>>
    /\ EnvKeeps

\* the digging task ends on its own: success, failure or cancellation
DiggingEnds ==
    /\ dig_state = "ACTIVE"
    /\ \E s \in DoneStates : dig_state' = s
    /\ trace' = IF status = "active" THEN Append(trace, Ev("dig_done", dig_state'))
                ELSE trace
    /\ UNCHANGED <<drive_stats, frequency, tpc, code, status, preempt_request,
                   new_goal, new_goal_preempt_request, ros_ok, sleeps, history>>
    /\ UNCHANGED <<lvars, nvars>>

\* server.setSucceeded / setPreempted / setAborted on the current goal
SetOutcome(tr, o) == Append(tr, Ev("set", o))

\* the thread's own steps leave the configuration and the server's inbox alone
ThreadKeeps ==
    /\ UNCHANGED <<drive_stats, frequency, new_goal, new_goal_preempt_request, ros_ok,
                   history>>
    /\ UNCHANGED <<lvars, nvars>>

\* what is remembered of the invocation that has just ended, when the next
\* one starts: for an immediate drive command its code, the drive messages it
\* published, its outcome and the configuration it started with
ThisCycle ==
    IF code \in DriveCodes
      THEN [code |-> code, msgs |-> DriveMsgs(trace), status |-> status,
            start |-> history.start]
      ELSE NoPrev

\* a faulty variant of Accept: the goal is taken and processCommand entered
\* wherever the execute thread is
AcceptEager(c) ==
    /\ ros_ok
    /\ new_goal
    /\ code' = c
    /\ new_goal' = FALSE
    /\ preempt_request' = new_goal_preempt_request
    /\ new_goal_preempt_request' = FALSE
    /\ status' = "active"
    /\ sleeps' = 0
    /\ trace' = IF new_goal_preempt_request
                  THEN <<Ev("preempt_req", "")>> ELSE << >>
    /\ tpc' = "switch"
    /\ history' = [start |-> <<drive_stats, frequency>>, prev |-> ThisCycle]
    /\ UNCHANGED <<drive_stats, frequency, ros_ok, dig_state>>
    /\ UNCHANGED <<lvars, nvars>>

\* SimpleActionServer::executeLoop, started by server.start() with the
\* execute callback bound in the constructor: the one execute thread takes
\* the pending goal (acceptNewGoal) and calls processCommand with it, only
\* when it is not inside processCommand (goal->code is c)
Accept(c) ==
    /\ tpc = "idle"
    /\ ros_ok
    /\ new_goal
    /\ code' = c
    /\ new_goal' = FALSE
    /\ preempt_request' = new_goal_preempt_request
    /\ new_goal_preempt_request' = FALSE
    /\ status' = "active"
    /\ sleeps' = 0
    /\ trace' = IF new_goal_preempt_request
                  THEN <<Ev("preempt_req", "")>> ELSE << >>
    /\ tpc' = "switch"
    /\ history' = [start |-> <<drive_stats, frequency>>, prev |-> ThisCycle]
    /\ UNCHANGED <<drive_stats, frequency, ros_ok, dig_state>>
    /\ UNCHANGED <<lvars, nvars>>

\* a faulty variant of MoveCmd: the opposite commands lose their minus sign
MoveCmdSameSign(c) ==
    CASE c = "FORWARD"          -> [ZeroTwist EXCEPT !.lx = drive_stats.linear]
      [] c = "BACKWARD"         -> [ZeroTwist EXCEPT !.lx = drive_stats.linear]
      [] c = "LEFT"             -> [ZeroTwist EXCEPT !.az = drive_stats.angular]
      [] c = "RIGHT"            -> [ZeroTwist EXCEPT !.az = drive_stats.angular]
      [] c = "CLOCKWISE"        -> [ZeroTwist EXCEPT !.az = drive_stats.angular]
      [] c = "COUNTERCLOCKWISE" -> [ZeroTwist EXCEPT !.az = drive_stats.angular]
      [] OTHER                  -> ZeroTwist

\* move_cmd as each drive case of the switch fills it in
MoveCmd(c) ==
    CASE c = "FORWARD"          -> [ZeroTwist EXCEPT !.lx = drive_stats.linear]
      [] c = "BACKWARD"         -> [ZeroTwist EXCEPT !.lx = -drive_stats.linear]
      [] c = "LEFT"             -> [ZeroTwist EXCEPT !.az = drive_stats.angular]
      [] c = "RIGHT"            -> [ZeroTwist EXCEPT !.az = -drive_stats.angular]
      [] c = "CLOCKWISE"        -> [ZeroTwist EXCEPT !.az = drive_stats.angular]
      [] c = "COUNTERCLOCKWISE" -> [ZeroTwist EXCEPT !.az = -drive_stats.angular]
      [] OTHER                  -> ZeroTwist

\* a faulty variant of DriveCase: the commands with a minus sign negate the
\* stored velocity profile in place
DriveCaseNegatesInPlace ==
    /\ tpc = "switch"
    /\ code \in DriveCodes
    /\ trace' = Append(trace, Ev("drive", MoveCmd(code)))
    /\ drive_stats' =
         CASE code = "BACKWARD" -> [drive_stats EXCEPT !.linear = -drive_stats.linear]
           [] code \in {"RIGHT", "COUNTERCLOCKWISE"} ->
                [drive_stats EXCEPT !.angular = -drive_stats.angular]
           [] OTHER -> drive_stats
    /\ tpc' = "succeed"
    /\ UNCHANGED <<code, status, preempt_request, dig_state, sleeps>>
    /\ UNCHANGED <<frequency, new_goal, new_goal_preempt_request, ros_ok, history>>
    /\ UNCHANGED <<lvars, nvars>>

\* cases STOP_DRIVEBASE, FORWARD, BACKWARD, LEFT, RIGHT, CLOCKWISE,
\* COUNTERCLOCKWISE: drivebase_publisher.publish(move_cmd); break
DriveCase ==
    /\ tpc = "switch"
    /\ code \in DriveCodes
    /\ trace' = Append(trace, Ev("drive", MoveCmd(code)))
    /\ tpc' = "succeed"
    /\ UNCHANGED <<code, status, preempt_request, dig_state, sleeps>>
    /\ ThreadKeeps

\* case STOP_TURNTABLE: nothing published; break
StopTurntableCase ==
    /\ tpc = "switch"
    /\ code = "STOP_TURNTABLE"
    /\ tpc' = "succeed"
    /\ UNCHANGED <<code, status, preempt_request, dig_state, sleeps, trace>>
    /\ ThreadKeeps

\* a faulty variant of ResetStartingCase: the placeholder publishes nothing
ResetStartingSilent ==
    /\ tpc = "switch"
    /\ code = "RESET_STARTING"
    /\ tpc' = "succeed"
    /\ UNCHANGED <<code, status, preempt_request, dig_state, sleeps, trace>>
    /\ UNCHANGED <<drive_stats, frequency, new_goal, new_goal_preempt_request>>
    /\ UNCHANGED <<ros_ok, history>>
    /\ UNCHANGED <<lvars, nvars>>

\* case RESET_STARTING: drivebase_publisher.publish(move_cmd); break
ResetStartingCase ==
    /\ tpc = "switch"
    /\ code = "RESET_STARTING"
    /\ trace' = Append(trace, Ev("drive", ZeroTwist))
    /\ tpc' = "succeed"
    /\ UNCHANGED <<code, status, preempt_request, dig_state, sleeps>>
    /\ ThreadKeeps

\* a faulty variant of DefaultCase: default: treated as a stop command
DefaultCaseFallsThrough ==
    /\ tpc = "switch"
    /\ code \notin RecognizedCodes
    /\ trace' = Append(trace, Ev("drive", ZeroTwist))
    /\ tpc' = "succeed"
    /\ UNCHANGED <<code, status, preempt_request, dig_state, sleeps>>
    /\ ThreadKeeps

\* default: server.setAborted(result); return
DefaultCase ==
    /\ tpc = "switch"
    /\ code \notin RecognizedCodes
    /\ status' = "aborted"
    /\ trace' = SetOutcome(trace, "aborted")
    /\ tpc' = "returned"
    /\ UNCHANGED <<code, preempt_request, dig_state, sleeps>>
    /\ ThreadKeeps

\* case DIG: ros::service::call("digging_time", digging_time), whose result
\* is not looked at; goal.diggingTime = the response (the default duration
\* when the call failed); digging_client.sendGoal(goal)
DigCase ==
    /\ tpc = "switch"
    /\ code = "DIG"
    /\ \E ok \in BOOLEAN :
         trace' = trace \o <<Ev("call_digging_time", ok), Ev("send_goal", ok)>>
    /\ dig_state' = "ACTIVE"
    /\ tpc' = "dig_while"
    /\ UNCHANGED <<code, status, preempt_request, sleeps>>
    /\ ThreadKeeps

\* a faulty variant of DigWhile: a digging task that did not succeed aborts
\* the command
DigWhileChecksOutcome ==
    /\ tpc = "dig_while"
    /\ IF dig_state = "SUCCEEDED"
         THEN /\ tpc' = "succeed"
              /\ trace' = Append(trace, Ev("obs_done", dig_state))
              /\ UNCHANGED status
         ELSE IF dig_state \in DoneStates
         THEN /\ tpc' = "returned"
              /\ trace' = SetOutcome(Append(trace, Ev("obs_done", dig_state)), "aborted")
              /\ status' = "aborted"
         ELSE /\ tpc' = "dig_if"
              /\ UNCHANGED <<trace, status>>
    /\ UNCHANGED <<code, preempt_request, dig_state, sleeps>>
    /\ ThreadKeeps

\* while (!digging_client.getState().isDone())
DigWhile ==
    /\ tpc = "dig_while"
    /\ tpc' = IF dig_state \in DoneStates THEN "succeed" ELSE "dig_if"
    /\ trace' = IF dig_state \in DoneStates THEN Append(trace, Ev("obs_done", dig_state))
                ELSE trace
    /\ UNCHANGED <<code, status, preempt_request, dig_state, sleeps>>
    /\ ThreadKeeps

\* a faulty variant of DigIf: the preemption branch lacks its return
DigIfNoReturn ==
    /\ tpc = "dig_if"
    /\ IF preempt_request \/ ~ros_ok
         THEN /\ trace' = SetOutcome(trace \o <<Ev("obs_preempt", preempt_request),
                                                 Ev("cancel", "")>>, "preempted")
              /\ status' = "preempted"
              /\ tpc' = "succeed"
              /\ UNCHANGED sleeps
         ELSE /\ sleeps < MaxPolls
              /\ sleeps' = sleeps + 1
              /\ tpc' = "dig_while"
              /\ UNCHANGED <<status, trace>>
    /\ UNCHANGED <<code, preempt_request, dig_state>>
    /\ ThreadKeeps

\* a faulty variant of DigIf: the digging goal is abandoned, not cancelled
DigIfNoCancel ==
    /\ tpc = "dig_if"
    /\ IF preempt_request \/ ~ros_ok
         THEN /\ trace' = SetOutcome(Append(trace, Ev("obs_preempt", preempt_request)),
                                     "preempted")
              /\ status' = "preempted"
              /\ tpc' = "returned"
              /\ UNCHANGED sleeps
         ELSE /\ sleeps < MaxPolls
              /\ sleeps' = sleeps + 1
              /\ tpc' = "dig_while"
              /\ UNCHANGED <<status, trace>>
    /\ UNCHANGED <<code, preempt_request, dig_state>>
    /\ ThreadKeeps

\* if (server.isPreemptRequested() || !ros::ok())
\*   { digging_client.cancelAllGoals(); server.setPreempted(); return; }
\* frequency.sleep();
DigIf ==
    /\ tpc = "dig_if"
    /\ IF preempt_request \/ ~ros_ok
         THEN /\ trace' = SetOutcome(trace \o <<Ev("obs_preempt", preempt_request),
                                                 Ev("cancel", "")>>, "preempted")
              /\ status' = "preempted"
              /\ tpc' = "returned"
              /\ UNCHANGED sleeps
         ELSE /\ sleeps < MaxPolls
              /\ sleeps' = sleeps + 1
              /\ tpc' = "dig_while"
              /\ UNCHANGED <<status, trace>>
    /\ UNCHANGED <<code, preempt_request, dig_state>>
    /\ ThreadKeeps

\* the target Bin State Code and the bin command of DUMP and RESET_DUMPING
BinTarget(c) == IF c = "DUMP" THEN "RAISED" ELSE "LOWERED"

BinCmd(c) == IF c = "DUMP" THEN "BIN_MAX" ELSE "BIN_MIN"

\* a faulty variant of BinCase: the bin loop is entered without stopping the
\* drivebase
BinCaseNoStop ==
    /\ tpc = "switch"
    /\ code \in BinCommandCodes
    /\ tpc' = "bin_while"
    /\ UNCHANGED <<code, status, preempt_request, dig_state, sleeps, trace>>
    /\ UNCHANGED <<drive_stats, frequency, new_goal, new_goal_preempt_request>>
    /\ UNCHANGED <<ros_ok, history>>
    /\ UNCHANGED <<lvars, nvars>>

\* cases DUMP, RESET_DUMPING: drivebase_publisher.publish(move_cmd) first
BinCase ==
    /\ tpc = "switch"
    /\ code \in BinCommandCodes
    /\ trace' = Append(trace, Ev("drive", ZeroTwist))
    /\ tpc' = "bin_while"
    /\ UNCHANGED <<code, status, preempt_request, dig_state, sleeps>>
    /\ ThreadKeeps

\* a faulty variant of BinWhile: shutdown does not end the bin loop
BinWhileIgnoresShutdown ==
    /\ tpc = "bin_while"
    /\ IF preempt_request
         THEN /\ trace' = Append(trace, Ev("obs_preempt", TRUE))
              /\ tpc' = "bin_if"
         ELSE /\ tpc' = "bin_poll"
              /\ UNCHANGED trace
    /\ UNCHANGED <<code, status, preempt_request, dig_state, sleeps>>
    /\ ThreadKeeps

\* while (!server.isPreemptRequested() && ros::ok())
BinWhile ==
    /\ tpc = "bin_while"
    /\ IF preempt_request
         THEN /\ trace' = Append(trace, Ev("obs_preempt", TRUE))
              /\ tpc' = "bin_if"
         ELSE IF ~ros_ok
         THEN /\ trace' = Append(trace, Ev("obs_shutdown", ""))
              /\ tpc' = "bin_if"
         ELSE /\ tpc' = "bin_poll"
              /\ UNCHANGED trace
    /\ UNCHANGED <<code, status, preempt_request, dig_state, sleeps>>
    /\ ThreadKeeps

\* a faulty variant of BinPoll: the loop gives up after one unanswered poll
BinPollGivesUp ==
    /\ tpc = "bin_poll"
    /\ \E answer \in BinCodes :
         IF answer = BinTarget(code) \/ sleeps >= 1
           THEN /\ trace' = Append(trace, Ev("poll", answer))
                /\ tpc' = "bin_if"
                /\ UNCHANGED sleeps
           ELSE /\ sleeps < MaxPolls
                /\ trace' = trace \o <<Ev("poll", answer), Ev("bin", BinCmd(code))>>
                /\ sleeps' = sleeps + 1
                /\ tpc' = "bin_while"
    /\ UNCHANGED <<code, status, preempt_request, dig_state>>
    /\ ThreadKeeps

\* ros::service::call("bin_state", query); if the code is the target: break;
\* bin_publisher.publish(bin_cmd); frequency.sleep();
BinPoll ==
    /\ tpc = "bin_poll"
    /\ \E answer \in BinCodes :
         IF answer = BinTarget(code)
           THEN /\ trace' = Append(trace, Ev("poll", answer))
                /\ tpc' = "bin_if"
                /\ UNCHANGED sleeps
           ELSE /\ sleeps < MaxPolls
                /\ trace' = trace \o <<Ev("poll", answer), Ev("bin", BinCmd(code))>>
                /\ sleeps' = sleeps + 1
                /\ tpc' = "bin_while"
    /\ UNCHANGED <<code, status, preempt_request, dig_state>>
    /\ ThreadKeeps

\* a faulty variant of BinIf: no preemption check after the loop
BinIfNoCheck ==
    /\ tpc = "bin_if"
    /\ tpc' = "succeed"
    /\ UNCHANGED <<code, status, preempt_request, dig_state, sleeps, trace>>
    /\ ThreadKeeps

\* after the loop: if (server.isPreemptRequested()) { server.setPreempted();
\* return; } else break
BinIf ==
    /\ tpc = "bin_if"
    /\ IF preempt_request
         THEN /\ status' = "preempted"
              /\ trace' = SetOutcome(trace, "preempted")
              /\ tpc' = "returned"
         ELSE /\ tpc' = "succeed"
              /\ UNCHANGED <<status, trace>>
    /\ UNCHANGED <<code, preempt_request, dig_state, sleeps>>
    /\ ThreadKeeps

\* after the switch: server.setSucceeded(result)
Succeed ==
    /\ tpc = "succeed"
    /\ status' = "succeeded"
    /\ trace' = SetOutcome(trace, "succeeded")
    /\ tpc' = "returned"
    /\ UNCHANGED <<code, preempt_request, dig_state, sleeps>>
    /\ ThreadKeeps

\* processCommand returns to SimpleActionServer::executeLoop
Return ==
    /\ tpc = "returned"
    /\ tpc' = "idle"
    /\ UNCHANGED <<code, status, preempt_request, dig_state, sleeps, trace>>
    /\ ThreadKeeps

\* the teleop action server: the execute thread (executeLoop calling
\* processCommand) and its environment
TeleopNext ==
    \/ \E c \in TeleopCodes : Accept(c)
    \/ DriveCase
    \/ StopTurntableCase
    \/ ResetStartingCase
    \/ DefaultCase
    \/ DigCase
    \/ DigWhile
    \/ DigIf
    \/ BinCase
    \/ BinWhile
    \/ BinPoll
    \/ BinIf
    \/ Succeed
    \/ Return
    \/ GoalArrives
    \/ CancelArrives
    \/ CancelPending
    \/ Shutdown
    \/ DiggingEnds

\* Localizer(n): the server started with no goal
LocalizerInit ==
    /\ lpc = "idle"
    /\ lstatus = "none"
    /\ lpreempt_request = FALSE
    /\ lnew_goal = FALSE
    /\ lnew_goal_preempt_request = FALSE
    /\ lros_ok = TRUE
    /\ retries = 0
    /\ ltrace = << >>

\* what the localizer's environment leaves alone
LEnvKeeps ==
    /\ UNCHANGED <<lpc, lstatus, retries>>
    /\ UNCHANGED <<tvars, nvars>>

\* SimpleActionServer::goalCallback at Localizer::server (the goal is empty)
LGoalArrives ==
    /\ lros_ok
    /\ lnew_goal' = TRUE
    /\ lnew_goal_preempt_request' = FALSE
    /\ IF lstatus = "active"
         THEN /\ lpreempt_request' = TRUE
              /\ ltrace' = IF lpreempt_request THEN ltrace
                           ELSE Append(ltrace, Ev("preempt_req", ""))
         ELSE UNCHANGED <<lpreempt_request, ltrace>>
    /\ UNCHANGED lros_ok
    /\ LEnvKeeps

\* SimpleActionServer::preemptCallback: a client cancels the active goal
LCancelArrives ==
    /\ lros_ok
    /\ lstatus = "active"
    /\ ~lpreempt_request
    /\ lpreempt_request' = TRUE
    /\ ltrace' = Append(ltrace, Ev("preempt_req", ""))
    /\ UNCHANGED <<lnew_goal, lnew_goal_preempt_request, lros_ok>>
    /\ LEnvKeeps

\* SimpleActionServer::preemptCallback: a client cancels the pending goal
LCancelPending ==
    /\ lros_ok
    /\ lnew_goal
    /\ ~lnew_goal_preempt_request
    /\ lnew_goal_preempt_request' = TRUE
    /\ UNCHANGED <<lpreempt_request, lnew_goal, lros_ok, ltrace>>
    /\ LEnvKeeps

\* the localization node is shut down
LShutdown ==
    /\ lros_ok
    /\ lros_ok' = FALSE
    /\ UNCHANGED <<lpreempt_request, lnew_goal, lnew_goal_preempt_request, ltrace>>
    /\ LEnvKeeps

\* the localizer thread's own steps leave the server's inbox alone
LThreadKeeps ==
    /\ UNCHANGED <<lnew_goal, lnew_goal_preempt_request, lros_ok, lpreempt_request>>
    /\ UNCHANGED <<tvars, nvars>>

\* SimpleActionServer::executeLoop of Localizer::server, started by
\* server.start() with localize bound as the execute callback
LAccept ==
    /\ lpc = "idle"
    /\ lros_ok
    /\ lnew_goal
    /\ lnew_goal' = FALSE
    /\ lpreempt_request' = lnew_goal_preempt_request
    /\ lnew_goal_preempt_request' = FALSE
    /\ lstatus' = "active"
    /\ retries' = 0
    /\ ltrace' = IF lnew_goal_preempt_request
                   THEN <<Ev("preempt_req", "")>> ELSE << >>
    /\ lpc' = "check"
    /\ UNCHANGED lros_ok
    /\ UNCHANGED <<tvars, nvars>>

\* a failed iteration: `continue`, or falling off the end of the loop body
Retry(tr) ==
    /\ retries < MaxRetries
    /\ retries' = retries + 1
    /\ ltrace' = tr
    /\ lpc' = "check"
    /\ UNCHANGED lstatus

\* a faulty variant of LCheck: only node shutdown ends the loop
LCheckIgnoresPreempt ==
    /\ lpc = "check"
    /\ IF ~lros_ok
         THEN /\ lstatus' = "preempted"
              /\ ltrace' = SetOutcome(Append(ltrace, Ev("check", TRUE)), "preempted")
              /\ lpc' = "returned"
         ELSE /\ ltrace' = Append(ltrace, Ev("check", FALSE))
              /\ lpc' = "image"
              /\ UNCHANGED lstatus
    /\ UNCHANGED retries
    /\ LThreadKeeps

\* a faulty variant of LCheck: the loop gives up after one failed iteration
LCheckCapped ==
    /\ lpc = "check"
    /\ IF lpreempt_request \/ ~lros_ok \/ retries >= 1
         THEN /\ lstatus' = "preempted"
              /\ ltrace' = SetOutcome(Append(ltrace, Ev("check", TRUE)), "preempted")
              /\ lpc' = "returned"
         ELSE /\ ltrace' = Append(ltrace, Ev("check", FALSE))
              /\ lpc' = "image"
              /\ UNCHANGED lstatus
    /\ UNCHANGED retries
    /\ LThreadKeeps

\* top of the loop: if (server.isPreemptRequested() || !ros::ok())
\*   { server.setPreempted(); break; }
LCheck ==
    /\ lpc = "check"
    /\ IF lpreempt_request \/ ~lros_ok
         THEN /\ lstatus' = "preempted"
              /\ ltrace' = SetOutcome(Append(ltrace, Ev("check", TRUE)), "preempted")
              /\ lpc' = "returned"
         ELSE /\ ltrace' = Append(ltrace, Ev("check", FALSE))
              /\ lpc' = "image"
              /\ UNCHANGED lstatus
    /\ UNCHANGED retries
    /\ LThreadKeeps

\* if (!image_client.call(request)) continue;
LImage ==
    /\ lpc = "image"
    /\ \E ok \in BOOLEAN :
         IF ok
           THEN /\ ltrace' = Append(ltrace, Ev("image", TRUE))
                /\ lpc' = "aruco"
                /\ UNCHANGED <<lstatus, retries>>
           ELSE Retry(Append(ltrace, Ev("image", FALSE)))
    /\ LThreadKeeps

\* a faulty variant of LAruco: number_found is not tested
LArucoNoCountCheck ==
    /\ lpc = "aruco"
    /\ \/ Retry(Append(ltrace, Ev("aruco", -1)))
       \/ \E number_found \in 0 .. MaxMarkers :
            /\ ltrace' = Append(ltrace, Ev("aruco", number_found))
            /\ lpc' = "transform"
            /\ UNCHANGED <<lstatus, retries>>
    /\ LThreadKeeps

\* aruco.sendGoal(goal); if (aruco.waitForResult()) { if
\* (result->number_found == 0) continue; ... } else "Could not reach aruco"
LAruco ==
    /\ lpc = "aruco"
    /\ \/ Retry(Append(ltrace, Ev("aruco", -1)))
       \/ \E number_found \in 0 .. MaxMarkers :
            IF number_found = 0
              THEN Retry(Append(ltrace, Ev("aruco", 0)))
              ELSE /\ ltrace' = Append(ltrace, Ev("aruco", number_found))
                   /\ lpc' = "transform"
                   /\ UNCHANGED <<lstatus, retries>>
    /\ LThreadKeeps

\* if (!tf_manipulator.transform_pose(...)) continue; then the sign flips,
\* the frame and the stamp of bin_pose
LTransform ==
    /\ lpc = "transform"
    /\ \E ok \in BOOLEAN :
         IF ok
           THEN /\ ltrace' = Append(ltrace, Ev("transform", TRUE))
                /\ lpc' = "commit"
                /\ UNCHANGED <<lstatus, retries>>
           ELSE Retry(Append(ltrace, Ev("transform", FALSE)))
    /\ LThreadKeeps

\* a faulty variant of LCommit: setSucceeded without the break
LCommitNoBreak ==
    /\ lpc = "commit"
    /\ \E ok \in BOOLEAN :
         IF ok
           THEN /\ lstatus' = "succeeded"
                /\ ltrace' = SetOutcome(Append(ltrace, Ev("commit", TRUE)), "succeeded")
                /\ lpc' = "check"
                /\ UNCHANGED retries
           ELSE Retry(Append(ltrace, Ev("commit", FALSE)))
    /\ LThreadKeeps

\* a faulty variant of LCommit: success is not reported once a preempt
\* request has arrived
LCommitChecksPreempt ==
    /\ lpc = "commit"
    /\ \E ok \in BOOLEAN :
         IF ok
           THEN /\ lstatus' = IF lpreempt_request THEN "preempted" ELSE "succeeded"
                /\ ltrace' = SetOutcome(Append(ltrace, Ev("commit", TRUE)), lstatus')
                /\ lpc' = "returned"
                /\ UNCHANGED retries
           ELSE Retry(Append(ltrace, Ev("commit", FALSE)))
    /\ LThreadKeeps

\* a faulty variant of LCommit: a failed commit is repeated with the same pose
LCommitRetriesSamePose ==
    /\ lpc = "commit"
    /\ \E ok \in BOOLEAN :
         IF ok
           THEN /\ lstatus' = "succeeded"
                /\ ltrace' = SetOutcome(Append(ltrace, Ev("commit", TRUE)), "succeeded")
                /\ lpc' = "returned"
                /\ UNCHANGED retries
           ELSE /\ retries < MaxRetries
                /\ retries' = retries + 1
                /\ ltrace' = Append(ltrace, Ev("commit", FALSE))
                /\ lpc' = "commit"
                /\ UNCHANGED lstatus
    /\ LThreadKeeps

\* a faulty variant of LCommit: a failed commit ends the invocation
LCommitAborts ==
    /\ lpc = "commit"
    /\ \E ok \in BOOLEAN :
         /\ lstatus' = IF ok THEN "succeeded" ELSE "aborted"
         /\ ltrace' = SetOutcome(Append(ltrace, Ev("commit", ok)),
                                 IF ok THEN "succeeded" ELSE "aborted")
         /\ lpc' = "returned"
         /\ UNCHANGED retries
    /\ LThreadKeeps

\* if (ros::service::call("localize_bin", request, response))
\*   { server.setSucceeded(); break; } else retry
LCommit ==
    /\ lpc = "commit"
    /\ \E ok \in BOOLEAN :
         IF ok
           THEN /\ lstatus' = "succeeded"
                /\ ltrace' = SetOutcome(Append(ltrace, Ev("commit", TRUE)), "succeeded")
                /\ lpc' = "returned"
                /\ UNCHANGED retries
           ELSE Retry(Append(ltrace, Ev("commit", FALSE)))
    /\ LThreadKeeps

\* localize returns to SimpleActionServer::executeLoop
LReturn ==
    /\ lpc = "returned"
    /\ lpc' = "idle"
    /\ UNCHANGED <<lstatus, retries, ltrace>>
    /\ LThreadKeeps

\* the localization action server: the execute thread (executeLoop calling
\* localize) and its environment
LocalizerNext ==
    \/ LAccept
    \/ LCheck
    \/ LImage
    \/ LAruco
    \/ LTransform
    \/ LCommit
    \/ LReturn
    \/ LGoalArrives
    \/ LCancelArrives
    \/ LCancelPending
    \/ LShutdown

(***************************************************************************)
(* The navigation goal manager.  Its header declares the constraints, the  *)
(* reference frame and initialize_goal; the body of initialize_goal is     *)
(* described by the specification, sections 2 and 4.3.                     *)
(***************************************************************************)

\* tfr_utilities::LocationCode: the destinations the synthesizer supports,
\* and values outside them
SupportedLocations == {"MINING_SITE", "BIN", "FINISH_LINE", "START"}
LocationCodes == SupportedLocations \cup {"UNSET", "UNKNOWN"}

\* values of the two doubles of GeometryConstraints and of ref_frame
Distances == {1, 2, 3}
Frames == {"odom", "bin_footprint"}

\* a process that holds no manager
NoManager == [reference_frame |-> "", safe_mining_distance |-> 0, finish_line |-> 0]

\* move_base_msgs::MoveBaseGoal{} as the caller constructs it
DefaultGoal == [frame_id |-> "", x |-> 0]

\* the distance of a destination from the bin along the reference axis
GoalDistance(c) ==
    CASE c = "MINING_SITE" -> manager.safe_mining_distance
      [] c = "FINISH_LINE" -> manager.finish_line
      [] OTHER             -> 0

\* NavigationGoalManager(ref_frame, constraints)
NavInit ==
    /\ manager \in [reference_frame : Frames, safe_mining_distance : Distances,
                    finish_line : Distances]
    /\ nav_pc = "idle"
    /\ nav_code = "UNSET"
    /\ nav_goal = DefaultGoal
    /\ nav_result = "none"

\* the teleop and localization servers hold no manager
NoNavigation ==
    /\ manager = NoManager
    /\ nav_pc = "idle"
    /\ nav_code = "UNSET"
    /\ nav_goal = DefaultGoal
    /\ nav_result = "none"

\* a planning collaborator calls initialize_goal(nav_goal, c) with a new
\* goal message or with the one it used before
NavCall(c, fresh) ==
    /\ nav_pc = "idle"
    /\ nav_pc' = "called"
    /\ nav_code' = c
    /\ nav_goal' = IF fresh THEN DefaultGoal ELSE nav_goal
    /\ nav_result' = "none"
    /\ UNCHANGED <<manager, tvars, lvars>>

\* a faulty variant of InitializeGoal: an unsupported code only logs and
\* returns normally, the goal left as it was passed in
InitializeGoalSilent ==
    /\ nav_pc = "called"
    /\ IF nav_code \in SupportedLocations
         THEN nav_goal' = [frame_id |-> manager.reference_frame,
                           x |-> GoalDistance(nav_code)]
         ELSE nav_goal' = nav_goal
    /\ nav_result' = "ok"
    /\ nav_pc' = "done"
    /\ UNCHANGED <<manager, nav_code, tvars, lvars>>

\* initialize_goal: the pose of a supported code is written into nav_goal;
\* an unsupported code is signalled as an error and nothing is written
InitializeGoal ==
    /\ nav_pc = "called"
    /\ IF nav_code \in SupportedLocations
         THEN /\ nav_goal' = [frame_id |-> manager.reference_frame,
                              x |-> GoalDistance(nav_code)]
              /\ nav_result' = "ok"
         ELSE /\ nav_goal' = nav_goal
              /\ nav_result' = "error"
    /\ nav_pc' = "done"
    /\ UNCHANGED <<manager, nav_code, tvars, lvars>>

\* the caller has taken the result
NavReturn ==
    /\ nav_pc = "done"
    /\ nav_pc' = "idle"
    /\ UNCHANGED <<manager, nav_code, nav_goal, nav_result, tvars, lvars>>

NavNext ==
    \/ \E c \in LocationCodes, fresh \in BOOLEAN : NavCall(c, fresh)
    \/ InitializeGoal
    \/ NavReturn

Init == TeleopInit /\ LocalizerInit /\ NoNavigation

\* a process that holds a navigation goal manager
NavProcessInit == TeleopInit /\ LocalizerInit /\ NavInit

\* the navigation goal manager and its callers
NavSpec == NavProcessInit /\ [][NavNext]_vars

\* the teleop action server in its environment
Spec == Init /\ [][TeleopNext]_vars

\* the two servers are separate nodes that share no state: either node
\* serves goals while the other still is as it was constructed
NodesNext ==
    \/ LocalizerInit /\ (\E c \in TeleopCodes : Accept(c))
    \/ LocalizerInit /\ DriveCase
    \/ LocalizerInit /\ StopTurntableCase
    \/ LocalizerInit /\ ResetStartingCase
    \/ LocalizerInit /\ DefaultCase
    \/ LocalizerInit /\ DigCase
    \/ LocalizerInit /\ DigWhile
    \/ LocalizerInit /\ DigIf
    \/ LocalizerInit /\ BinCase
    \/ LocalizerInit /\ BinWhile
    \/ LocalizerInit /\ BinPoll
    \/ LocalizerInit /\ BinIf
    \/ LocalizerInit /\ Succeed
    \/ LocalizerInit /\ Return
    \/ LocalizerInit /\ GoalArrives
    \/ LocalizerInit /\ CancelArrives
    \/ LocalizerInit /\ CancelPending
    \/ LocalizerInit /\ Shutdown
    \/ LocalizerInit /\ DiggingEnds
    \/ TeleopInit /\ LAccept
    \/ TeleopInit /\ LCheck
    \/ TeleopInit /\ LImage
    \/ TeleopInit /\ LAruco
    \/ TeleopInit /\ LTransform
    \/ TeleopInit /\ LCommit
    \/ TeleopInit /\ LReturn
    \/ TeleopInit /\ LGoalArrives
    \/ TeleopInit /\ LCancelArrives
    \/ TeleopInit /\ LCancelPending
    \/ TeleopInit /\ LShutdown

\* the teleop node and the localization node
NodesSpec == Init /\ [][NodesNext]_vars

\* the localization action server in its environment
LocSpec == Init /\ [][LocalizerNext]_vars

(***************************************************************************)
(* The claims.                                                             *)
(***************************************************************************)
\* the terminal outcomes set so far in this processCommand invocation
Outcomes == At(trace, "set")

\* the bin-state polls of this invocation that returned the target state
TargetPolls ==
    {i \in At(trace, "poll") :
        trace[i].arg = (IF code = "DUMP" THEN "RAISED" ELSE "LOWERED")}

\* C1: every processCommand invocation that returns has set exactly one
\* terminal outcome (Succeeded, Preempted or Aborted) for its goal: no path
\* returns without an outcome and none sets two.
C1_ExactlyOneOutcome ==
    /\ Cardinality(Outcomes) <= 1
    /\ tpc = "returned" =>
         /\ Cardinality(Outcomes) = 1
         /\ status \in Terminal
         /\ \A i \in Outcomes : trace[i].arg = status

\* a Reset-Dumping cycle that left its loop on a matching poll and was then
\* preempted at the check after the loop
C1_Witness ==
    /\ tpc = "returned"
    /\ code = "RESET_DUMPING"
    /\ status = "preempted"
    /\ TargetPolls # {}

\* a preempt request was raised in this invocation before the digging task
\* reached a done state
PreemptBeforeDone ==
    \E i \in At(trace, "preempt_req") : \A j \in At(trace, "dig_done") : i < j

\* C2: in a Dig cycle, a preempt request raised before the digging task is
\* done makes the dispatcher cancel the task and end Preempted, never
\* Succeeded, whatever the interleaving.
C2_DigPreemptAlwaysWins ==
    (code = "DIG" /\ tpc = "returned" /\ PreemptBeforeDone) =>
        /\ status = "preempted"
        /\ At(trace, "cancel") # {}

\* C2 (amended): in a Dig cycle, whenever the loop's preemption check runs
\* with the preempt request raised (the loop has then just seen the digging
\* task not done), the dispatcher issues a cancel to the digging task and the
\* cycle ends Preempted, never Succeeded.
C2_DigPreemptObserved ==
    /\ [][(code = "DIG" /\ tpc = "dig_if" /\ tpc' # "dig_if" /\ preempt_request) =>
            /\ tpc' = "returned"
            /\ status' = "preempted"
            /\ At(trace', "cancel") # {}
            /\ At(trace', "obs_done") = {}]_vars
    /\ []((code = "DIG" /\ At(trace, "cancel") # {}) =>
            /\ tpc \in {"returned", "idle"}
            /\ status = "preempted")

\* a Dig cycle preempted by a request that arrived after the loop had slept
C2_Witness ==
    /\ tpc = "returned"
    /\ code = "DIG"
    /\ status = "preempted"
    /\ sleeps > 0
    /\ At(trace, "preempt_req") # {}
    /\ At(trace, "cancel") # {}

\* the digging-duration lookup of this invocation failed
LookupFailed == \E i \in At(trace, "call_digging_time") : trace[i].arg = FALSE

\* C3: in a Dig cycle whose digging-duration lookup fails, the cycle ends
\* Aborted and the digging task is never sent a goal.
C3_LookupFailureAborts ==
    (code = "DIG" /\ LookupFailed) =>
        /\ At(trace, "send_goal") = {}
        /\ tpc = "returned" => status = "aborted"

\* C4: a Dump / Reset-Dumping cycle ends Succeeded if and only if one of its
\* bin-state polls returned the target state (Raised / Lowered), and no
\* bin-position command is published after that poll.
C4_BinSucceedsIffTargetPolled ==
    (code \in {"DUMP", "RESET_DUMPING"} /\ tpc = "returned") =>
        /\ (status = "succeeded") <=> (TargetPolls # {})
        /\ \A i \in TargetPolls : \A j \in At(trace, "bin") : j < i

C6_UnrecognizedAborts ==
    (code = "UNRECOGNIZED" /\ tpc # "switch") =>
        /\ tpc \in {"returned", "idle"}
        /\ status = "aborted"
        /\ \A i \in DOMAIN trace :
             trace[i].ev \notin {"drive", "bin", "poll", "call_digging_time",
                                 "send_goal", "cancel"}

\* an unrecognized command has been dispatched
C6_Witness ==
    /\ code = "UNRECOGNIZED"
    /\ tpc = "returned"

\* the drive message each command is documented to publish
C7_Expected ==
    CASE code = "STOP_DRIVEBASE" ->
           [lx |-> 0, ly |-> 0, lz |-> 0, ax |-> 0, ay |-> 0, az |-> 0]
      [] code = "FORWARD" ->
           [lx |-> drive_stats.linear, ly |-> 0, lz |-> 0, ax |-> 0, ay |-> 0, az |-> 0]
      [] code = "BACKWARD" ->
           [lx |-> 0 - drive_stats.linear, ly |-> 0, lz |-> 0, ax |-> 0, ay |-> 0, az |-> 0]
      [] code = "LEFT" ->
           [lx |-> 0, ly |-> 0, lz |-> 0, ax |-> 0, ay |-> 0, az |-> drive_stats.angular]
      [] code = "RIGHT" ->
           [lx |-> 0, ly |-> 0, lz |-> 0, ax |-> 0, ay |-> 0, az |-> 0 - drive_stats.angular]

\* C7: Stop-Drive, Forward, Backward, Left and Right each publish exactly one
\* drive message and no bin message and end Succeeded; the message is all
\* zero for Stop-Drive, linear x = +/- max linear for Forward / Backward and
\* angular z = +/- max angular for Left / Right, all else zero, the maxima
\* being those of the configured Drive Velocity Profile.
C7_DriveMessages ==
    /\ \E p \in Profiles :
         drive_stats = [linear |-> p.linear, angular |-> p.angular]
    /\ (code \in {"STOP_DRIVEBASE", "FORWARD", "BACKWARD", "LEFT", "RIGHT"}
          /\ tpc \in {"succeed", "returned"}) =>
         /\ Cardinality(At(trace, "drive")) = 1
         /\ \A i \in At(trace, "drive") : trace[i].arg = C7_Expected
         /\ At(trace, "bin") = {}
         /\ tpc = "returned" => status = "succeeded"

\* a Right command has published its message and succeeded
C7_Witness ==
    /\ code = "RIGHT"
    /\ tpc = "returned"
    /\ status = "succeeded"
    /\ drive_stats.angular = 15

\* C8: the dispatcher never runs two commands at once: a pending goal is
\* taken (processCommand entered) only when the execute thread is idle and
\* the previous cycle has set its terminal outcome; a goal arriving while a
\* cycle runs only raises the preempt request of the running cycle and
\* leaves the cycle's position, goal and publications as they are.
C8_NoConcurrentDispatch ==
    [][/\ (new_goal /\ ~new_goal') =>
            /\ tpc = "idle"
            /\ status \in Terminal \cup {"none"}
       /\ (status = "active" /\ ~new_goal /\ new_goal') =>
            /\ preempt_request'
            /\ <<tpc, code, status, dig_state, sleeps>>'
                 = <<tpc, code, status, dig_state, sleeps>>
            /\ \/ trace' = trace
               \/ trace' = Append(trace, [ev |-> "preempt_req", arg |-> ""])
      ]_vars

\* a second command is pending while a Dump cycle is in its polling loop
C8_Witness ==
    /\ status = "active"
    /\ new_goal
    /\ preempt_request
    /\ tpc = "bin_poll"
    /\ At(trace, "bin") # {}

\* the localizer thread's own events of this invocation, in order
IsOwnEvent(e) == e.ev # "preempt_req"

Own == SelectSeq(ltrace, IsOwnEvent)

\* the failed steps of the loop body
IsFailure(e) ==
    \/ e.ev = "image" /\ e.arg = FALSE
    \/ e.ev = "aruco" /\ e.arg <= 0
    \/ e.ev = "transform" /\ e.arg = FALSE
    \/ e.ev = "commit" /\ e.arg = FALSE

\* C9: a localize invocation ends only Succeeded or Preempted, never
\* Aborted; a failed image capture, zero markers, an unreachable marker
\* detection, a failed transform and a failed commit never end it: each is
\* followed by the preemption check at the top of the loop.
C9_LocalizerOutcomes ==
    /\ lstatus \in {"none", "active", "succeeded", "preempted"}
    /\ lpc = "returned" => lstatus \in {"succeeded", "preempted"}
    /\ \A i \in DOMAIN Own :
         IsFailure(Own[i]) =>
            IF i = Len(Own) THEN lpc = "check" /\ lstatus = "active"
            ELSE Own[i + 1].ev = "check"

\* an invocation that succeeded after a failed commit
C9_Witness ==
    /\ lpc = "returned"
    /\ lstatus = "succeeded"
    /\ \E i \in At(ltrace, "commit") : ltrace[i].arg = FALSE

\* C10: a commit call is issued only in an iteration whose image capture
\* succeeded, whose marker detection found more than zero markers and whose
\* transform succeeded; Succeeded is set only right after a commit call of
\* such an iteration returned success.
C10_CommitOnlyFromDetection ==
    /\ \A i \in At(Own, "commit") :
         /\ i > 4
         /\ Own[i - 1].ev = "transform" /\ Own[i - 1].arg = TRUE
         /\ Own[i - 2].ev = "aruco" /\ Own[i - 2].arg > 0
         /\ Own[i - 3].ev = "image" /\ Own[i - 3].arg = TRUE
         /\ Own[i - 4].ev = "check" /\ Own[i - 4].arg = FALSE
    /\ \A i \in At(Own, "set") :
         Own[i].arg = "succeeded" =>
            /\ i > 1
            /\ Own[i - 1].ev = "commit" /\ Own[i - 1].arg = TRUE
    /\ lstatus = "succeeded" =>
         \E i \in At(Own, "set") : Own[i].arg = "succeeded"

\* an invocation that committed in its second iteration, after zero markers
C10_Witness ==
    /\ lpc = "returned"
    /\ lstatus = "succeeded"
    /\ \E i \in At(ltrace, "aruco") : ltrace[i].arg = 0
    /\ Cardinality(At(ltrace, "commit")) = 1

\* every failed step of this invocation so far is a zero-marker detection
OnlyZeroMarkerFailures ==
    \A i \in DOMAIN Own : IsFailure(Own[i]) => (Own[i].ev = "aruco" /\ Own[i].arg = 0)

\* a commit call of this invocation returned success
CommitSucceeded == \E i \in At(Own, "commit") : Own[i].arg = TRUE

\* the zero-marker detections of this invocation
ZeroDetections == {i \in At(Own, "aruco") : Own[i].arg = 0}

\* C11: when the iterations of a localize invocation are any number of
\* zero-marker detections followed by one with markers found, a successful
\* transform and a successful commit, exactly one commit call is issued in
\* the whole invocation and it ends Succeeded; the zero-marker iterations
\* issue no transform and no commit.
C11_OneCommitAfterZeroMarkers ==
    (OnlyZeroMarkerFailures /\ CommitSucceeded) =>
        /\ Cardinality(At(Own, "commit")) = 1
        /\ Cardinality(At(Own, "transform")) = 1
        /\ lstatus = "succeeded"
        /\ lpc \in {"returned", "idle"}
        /\ Len(Own) = 3 * Cardinality(ZeroDetections) + 6
        /\ \A i \in ZeroDetections :
             /\ Own[i + 1].ev = "check"
             /\ \A j \in At(Own, "transform") \cup At(Own, "commit") : i < j

\* two zero-marker iterations, then markers found, transform and commit
\* succeeded, with no preempt request
C11_Witness ==
    /\ lpc = "returned"
    /\ OnlyZeroMarkerFailures
    /\ CommitSucceeded
    /\ Cardinality(ZeroDetections) = 2
    /\ At(ltrace, "preempt_req") = {}
    /\ lros_ok

\* the remote calls and the subordinate task of the loop body
BodyCalls ==
    At(ltrace, "image") \cup At(ltrace, "aruco") \cup At(ltrace, "transform")
      \cup At(ltrace, "commit")

\* C12: a preempt request pending when localize reaches the check at the top
\* of an iteration ends the invocation Preempted, and from that check on no
\* image capture, marker detection, transform or commit call is issued; a
\* request pending at the start of the invocation yields no call at all.
C12_PreemptAtCheck ==
    /\ [][(lpc = "check" /\ lpreempt_request /\ lpc' # "check") =>
            /\ lpc' = "returned"
            /\ lstatus' = "preempted"
            /\ ltrace' = ltrace \o <<[ev |-> "check", arg |-> TRUE],
                                     [ev |-> "set", arg |-> "preempted"]>>]_vars
    /\ [](\A i \in At(ltrace, "check") :
            ltrace[i].arg = TRUE =>
               /\ lstatus = "preempted"
               /\ lpc \in {"returned", "idle"}
               /\ \A j \in BodyCalls : j < i)
    /\ []((ltrace # << >> /\ ltrace[1].ev = "preempt_req") => BodyCalls = {})

\* an invocation accepted with the preempt request already raised has ended
C12_Witness ==
    /\ lpc = "returned"
    /\ lros_ok
    /\ ltrace = <<[ev |-> "preempt_req", arg |-> ""],
                  [ev |-> "check", arg |-> TRUE],
                  [ev |-> "set", arg |-> "preempted"]>>

\* the failed steps of this invocation
Failures == {i \in DOMAIN Own : IsFailure(Own[i])}

\* C13: localize has no retry cap: after any number n of failed iterations
\* (image capture, zero markers, unreachable detection, transform, commit)
\* with no preempt request the invocation is still running and starts
\* iteration n + 1; it reaches a terminal state only through a successful
\* commit or through the preemption check, never through the count of
\* failures.
C13_NoRetryCap ==
    /\ [][(lpc = "check" /\ ~lpreempt_request /\ lros_ok /\ lpc' # "check") =>
            /\ lpc' = "image"
            /\ lstatus' = "active"
            /\ retries' = retries]_vars
    /\ [](lpc \in {"check", "image", "aruco", "transform", "commit"} =>
            /\ lstatus = "active"
            /\ Cardinality(Failures) = retries)
    /\ [](lstatus \in Terminal =>
            \/ CommitSucceeded
            \/ /\ \E i \in At(Own, "check") : Own[i].arg = TRUE
               /\ At(ltrace, "preempt_req") # {} \/ ~lros_ok)

\* after MaxRetries failed iterations and no preempt request the next
\* iteration has started
C13_Witness ==
    /\ lpc = "image"
    /\ retries = MaxRetries
    /\ Cardinality(Failures) = MaxRetries
    /\ At(ltrace, "preempt_req") = {}
    /\ lros_ok

\* the bin-state polls of this invocation that did not return the target
OtherPolls == At(trace, "poll") \ TargetPolls

\* C14: in a Dump / Reset-Dumping cycle in which no bin-state poll has
\* returned the target state and no preempt request was raised, with the
\* node alive, the cycle has not reached a terminal state (it is still in
\* its loop, however many polls it made), and every poll is followed by one
\* bin-position command toward the target: the maximum angle for Dump, the
\* minimum angle for Reset-Dumping.
C14_BinLoopsUntilTarget ==
    code \in {"DUMP", "RESET_DUMPING"} =>
        /\ \A i \in OtherPolls :
             /\ i < Len(trace)
             /\ trace[i + 1] = [ev |-> "bin",
                                arg |-> IF code = "DUMP" THEN "BIN_MAX" ELSE "BIN_MIN"]
        /\ Cardinality(At(trace, "bin")) = Cardinality(OtherPolls)
        /\ Cardinality(OtherPolls) = sleeps
        /\ (TargetPolls = {} /\ At(trace, "preempt_req") = {} /\ ros_ok) =>
             /\ status = "active"
             /\ tpc \in {"switch", "bin_while", "bin_poll"}

\* a Dump cycle polling again after MaxPolls polls without the target, no
\* preempt request and the node alive
C14_Witness ==
    /\ code = "DUMP"
    /\ tpc = "bin_poll"
    /\ sleeps = MaxPolls
    /\ Cardinality(At(trace, "bin")) = MaxPolls
    /\ At(trace, "preempt_req") = {}
    /\ ros_ok

\* C15: when the same immediate drive command is issued twice in a row, the
\* two cycles publish identical drive messages and both end Succeeded, and
\* the dispatcher's state (velocity profile, poll period) after the second
\* cycle equals its state before the first.
C15_DriveIdempotent ==
    (tpc = "returned" /\ code \in DriveCodes /\ history.prev.code = code) =>
        /\ SelectSeq(trace, IsDrive) # << >>
        /\ SelectSeq(trace, IsDrive) = history.prev.msgs
        /\ status = "succeeded"
        /\ history.prev.status = "succeeded"
        /\ <<drive_stats, frequency>> = history.prev.start

\* Backward has been issued twice in a row and the second cycle has returned
C15_Witness ==
    /\ tpc = "returned"
    /\ code = "BACKWARD"
    /\ history.prev.code = "BACKWARD"
    /\ Len(history.prev.msgs) = 1

\* what the dispatcher itself did in the current invocation: the log without
\* the requests and completions that arrive from outside
IsDispatcherEvent(e) == e.ev \notin {"preempt_req", "dig_done"}
Observed == SelectSeq(trace, IsDispatcherEvent)

\* C16: Reset-Starting is observationally equivalent to Stop-Drive: each
\* publishes exactly one all-zero drive message, publishes no bin command,
\* makes no remote call and ends Succeeded.
C16_ResetStartingIsStopDrive ==
    (tpc = "returned" /\ code \in {"RESET_STARTING", "STOP_DRIVEBASE"}) =>
        /\ Observed = << Ev("drive", ZeroTwist), Ev("set", "succeeded") >>
        /\ status = "succeeded"

\* a Reset-Starting cycle has returned
C16_Witness ==
    /\ tpc = "returned"
    /\ code = "RESET_STARTING"
    /\ Len(Observed) = 2

\* C17: initialize_goal signals an explicit error for an unsupported
\* Location Code; a call that ends without an error was given a supported
\* code and has written a pose in the manager's reference frame, so a default
\* or unmodified goal never passes as valid.
C17_UnsupportedLocationIsError ==
    /\ (nav_pc = "done" /\ nav_code \notin SupportedLocations) =>
           nav_result = "error"
    /\ nav_result = "ok" =>
           /\ nav_code \in SupportedLocations
           /\ nav_goal.frame_id = manager.reference_frame
           /\ nav_goal # DefaultGoal

\* a call with an unset code on a goal message used before has ended
C17_Witness ==
    /\ nav_pc = "done"
    /\ nav_code = "UNSET"
    /\ nav_result = "error"
    /\ nav_goal # DefaultGoal

\* C18: in every Dump and Reset-Dumping cycle exactly one stop-drive
\* (all-zero) message is published; it is the first thing the cycle does, so
\* it comes before the first bin-state poll and before any bin-position
\* command, and no other drive message is published during the cycle.
C18_StopDriveFirst ==
    code \in BinCommandCodes =>
        /\ tpc = "switch" => Observed = << >>
        /\ tpc # "switch" =>
              /\ Observed # << >>
              /\ Observed[1] = Ev("drive", ZeroTwist)
              /\ Cardinality(At(Observed, "drive")) = 1
        /\ \A i \in At(trace, "poll") \cup At(trace, "bin") :
              \E j \in At(trace, "drive") : j < i

\* a Dump cycle has polled twice, commanded the bin and returned
C18_Witness ==
    /\ code = "DUMP"
    /\ tpc = "returned"
    /\ Cardinality(At(trace, "poll")) >= 2
    /\ At(trace, "bin") # {}

\* the calls of one iteration after its check
Stages == {"image", "aruco", "transform", "commit"}

\* the preempt requests that arrived after the last check so far
LatePreempts ==
    {i \in At(ltrace, "preempt_req") :
        /\ At(ltrace, "check") # {}
        /\ \A j \in At(ltrace, "check") : j < i}

\* C19: a preempt request is honoured only at the check at the top of an
\* iteration: with a request raised, the image capture, the detection, the
\* transform and the commit of the iteration are still made, only the check
\* sets Preempted, and when the commit of that iteration succeeds the
\* invocation ends Succeeded.
C19_PreemptOnlyAtCheck ==
    /\ [][(lpreempt_request /\ lpc \in Stages /\ lpc' # lpc) =>
              /\ \E k \in At(ltrace', lpc) : k > Len(ltrace)
              /\ lstatus' # "preempted"
              /\ lpc' \in Stages \cup {"check", "returned"}
              /\ lpc' = "returned" => lstatus' = "succeeded"]_vars
    /\ [][(lstatus # "preempted" /\ lstatus' = "preempted") => lpc = "check"]_vars
    /\ [](LatePreempts # {} =>
              /\ lstatus \in {"active", "succeeded"}
              /\ CommitSucceeded <=> lstatus = "succeeded"
              /\ CommitSucceeded => lpc \in {"returned", "idle"})

\* the request arrived between the check and the image capture of an
\* iteration whose commit then succeeded
C19_Witness ==
    /\ lstatus = "succeeded"
    /\ \E i \in LatePreempts :
          /\ i < Len(ltrace)
          /\ ltrace[i - 1].ev = "check"
          /\ ltrace[i + 1].ev = "image"
          /\ ltrace[Len(ltrace) - 1] = Ev("commit", TRUE)

\* the failed commit calls of this invocation
FailedCommits == {i \in At(Own, "commit") : Own[i].arg = FALSE}

\* C20: after a failed commit call the computed pose is discarded: the loop
\* goes back to its check, and any later commit call of the invocation comes
\* directly after a new check, a new successful image capture, a new
\* detection with markers found and a new successful transform, all of them
\* after the failed call; no pose is committed twice.
C20_FailedCommitRestarts ==
    /\ [][(lpc = "commit" /\ lstatus' = "active" /\ ltrace' # ltrace
              /\ ~(lpreempt_request' /\ ~lpreempt_request)) =>
              /\ lpc' = "check"
              /\ ltrace' = Append(ltrace, Ev("commit", FALSE))]_vars
    /\ [](\A i \in FailedCommits : \A j \in At(Own, "commit") :
              i < j =>
                 /\ i < j - 4
                 /\ Own[j - 4] = Ev("check", FALSE)
                 /\ Own[j - 3] = Ev("image", TRUE)
                 /\ Own[j - 2].ev = "aruco" /\ Own[j - 2].arg > 0
                 /\ Own[j - 1] = Ev("transform", TRUE))
    /\ [](\A i \in FailedCommits :
              i < Len(Own) => Own[i + 1].ev = "check")

\* a commit call failed and the commit call of the next iteration succeeded
C20_Witness ==
    /\ lstatus = "succeeded"
    /\ \E i \in FailedCommits : \E j \in At(Own, "commit") :
          i < j /\ Own[j].arg = TRUE

\* the drive messages published so far in a Clockwise or Counterclockwise cycle
TurnMsgs == SelectSeq(trace, IsDrive)

\* C21: Clockwise and Counterclockwise each publish exactly one drive message
\* whose only non-zero component is angular z with magnitude max angular and
\* opposite signs, and the signs agree with the turn commands of the same
\* rotational sense: Clockwise publishes what Right publishes and
\* Counterclockwise what Left publishes.
C21_TurnSenseAgrees ==
    (code \in {"CLOCKWISE", "COUNTERCLOCKWISE"} /\ tpc \in {"succeed", "returned"}) =>
        /\ Len(TurnMsgs) = 1
        /\ TurnMsgs[1].arg = [ZeroTwist EXCEPT !.az = TurnMsgs[1].arg.az]
        /\ TurnMsgs[1].arg.az \in {drive_stats.angular, 0 - drive_stats.angular}
        /\ MoveCmd("CLOCKWISE").az = 0 - MoveCmd("COUNTERCLOCKWISE").az
        /\ code = "CLOCKWISE" => TurnMsgs[1].arg = MoveCmd("RIGHT")
        /\ code = "COUNTERCLOCKWISE" => TurnMsgs[1].arg = MoveCmd("LEFT")

\* the polling loop of this Dig cycle has seen the digging task done
DigSeenDone == At(trace, "obs_done") # {}

\* C22: a Dig cycle sends exactly one goal to the digging task; when its
\* polling loop sees the task in a done state before it sees a preempt
\* request, the cycle ends Succeeded whatever the task's outcome, no cancel
\* is issued, and no drive or bin message is published during the cycle.
C22_DigDoneSucceeds ==
    code = "DIG" =>
        /\ Cardinality(At(trace, "send_goal")) = IF tpc = "switch" THEN 0 ELSE 1
        /\ At(trace, "drive") = {} /\ At(trace, "bin") = {}
        /\ DigSeenDone =>
              /\ Cardinality(At(trace, "obs_done")) = 1
              /\ \A i \in At(trace, "obs_done") : trace[i].arg \in DoneStates
              /\ At(trace, "obs_preempt") = {}
              /\ At(trace, "cancel") = {}
              /\ tpc \in {"succeed", "returned", "idle"}
              /\ status = IF tpc = "succeed" THEN "active" ELSE "succeeded"
              /\ \A i \in At(trace, "set") : trace[i].arg = "succeeded"

\* the digging task failed, a preempt request arrived after the loop had seen
\* the task done, and the cycle has ended
C22_Witness ==
    /\ code = "DIG"
    /\ tpc = "returned"
    /\ status = "succeeded"
    /\ \E i \in At(trace, "obs_done") :
          /\ trace[i].arg = "ABORTED"
          /\ \E j \in At(trace, "preempt_req") : j > i

\* the places of the log where a loop of the dispatcher saw the node shut
\* down with no preempt request raised
DigShutdowns == {i \in At(trace, "obs_preempt") : trace[i].arg = FALSE}
BinShutdowns == At(trace, "obs_shutdown")

\* C23: node shutdown with no preempt request is treated as preemption by Dig
\* (the digging task is cancelled, outcome Preempted) and by the localization
\* loop (outcome Preempted), whereas Dump and Reset-Dumping leave their loop
\* on shutdown without a matching bin-state poll and end Succeeded.
C23_ShutdownOutcomes ==
    /\ [][(lpc = "check" /\ ~lros_ok /\ ~lpreempt_request /\ lpc' # lpc) =>
              /\ lstatus' = "preempted"
              /\ lpc' = "returned"
              /\ ltrace' = ltrace \o <<Ev("check", TRUE), Ev("set", "preempted")>>]_vars
    /\ [][(tpc = "dig_if" /\ ~ros_ok /\ ~preempt_request /\ tpc' # tpc) =>
              /\ status' = "preempted"
              /\ tpc' = "returned"
              /\ trace' = trace \o <<Ev("obs_preempt", FALSE), Ev("cancel", ""),
                                     Ev("set", "preempted")>>]_vars
    /\ [][(tpc = "bin_while" /\ ~ros_ok /\ ~preempt_request /\ tpc' # tpc) =>
              /\ tpc' = "bin_if"
              /\ trace' = Append(trace, Ev("obs_shutdown", ""))]_vars
    /\ [](DigShutdowns # {} =>
              /\ code = "DIG" /\ ~ros_ok
              /\ status = "preempted"
              /\ At(trace, "cancel") # {})
    /\ [](BinShutdowns # {} =>
              /\ code \in BinCommandCodes /\ ~ros_ok
              /\ TargetPolls = {}
              /\ tpc \in {"bin_if", "succeed", "returned", "idle"}
              /\ status = IF tpc \in {"returned", "idle"} THEN "succeeded" ELSE "active"
              /\ \A i \in At(trace, "set") : trace[i].arg = "succeeded")

\* a Reset-Dumping cycle was shut down after an unanswered poll and has ended
C23_Witness ==
    /\ code = "RESET_DUMPING"
    /\ tpc = "returned"
    /\ status = "succeeded"
    /\ BinShutdowns # {}
    /\ At(trace, "poll") # {}
    /\ At(trace, "preempt_req") = {}

\* a Dig cycle was shut down with no preempt request and has ended
C23_DigWitness ==
    /\ code = "DIG"
    /\ tpc = "returned"
    /\ DigShutdowns # {}

\* a localization was shut down with no preempt request and has ended
C23_LocWitness ==
    /\ lpc = "returned"
    /\ lstatus = "preempted"
    /\ ~lros_ok
    /\ ~lpreempt_request

====
